---- MODULE Spec2Model ----
(***************************************************************************)
(* Plan-execute-replan engine of sengy (src/sengy/agent/agent.py).         *)
(*                                                                         *)
(* The router graph (src/sengy/agent/sengy_graph.py) classifies a request  *)
(* and delegates it to one engine.  One run of the engine's compiled graph *)
(* START -> planner -> agent -> replan -> (agent | END) is modelled as a   *)
(* state machine over the PlanExecute channels.  The language model and the tool-calling sub-agent are        *)
(* oracles: every value their schema admits is drawn with \E.  A node      *)
(* returns a partial update that the graph applies through the channel's   *)
(* reducer (last value for plan and response, operator.add for past_steps, *)
(* operator.or_ for shared_data).                                          *)
(***************************************************************************)
EXTENDS Integers, Sequences, FiniteSets, TLC

\* the PlanExecute channels of the running engine, its position and counters
VARIABLES pc, plan, past_steps, response, shared_data, oracle,
          steps, nPlan, nExec, nReplan,
          oracle_calls, agent_calls, agent_response

\* the SengyRouterState channels of the router graph and its position
VARIABLES rpc, route_decision, final_response, router_shared_data,
          engine, github_runs, jira_runs, router_calls

engine_vars == <<pc, plan, past_steps, response, shared_data, oracle,
                 steps, nPlan, nExec, nReplan,
                 oracle_calls, agent_calls, agent_response>>

router_vars == <<rpc, route_decision, final_response, router_shared_data,
                 engine, github_runs, jira_runs, router_calls>>

\* one tool invocation inside the sub-agent: the sub-agent state's
\* shared_data, the call, what it returned and what it did on the way
VARIABLES agent_state, owner, tool_call, tool_result, events

tool_vars == <<agent_state, owner, tool_call, tool_result, events>>

\* the custom stream of the running sub-agent, what execute_step wrote to the
\* engine's stream writer, and how many notices tools have written
VARIABLES stream, observer, emitted

stream_vars == <<stream, observer, emitted>>

\* the outputs a scripted oracle and a scripted sub-agent return, in order
VARIABLE script

\* GitHubAPIWrapper: the repository cache, the calls made to the underlying
\* github.get_repo per repository name, and what the last _get_repo returned
VARIABLES repo_cache, github_get_repo, repo_returned

repo_vars == <<repo_cache, github_get_repo, repo_returned>>

\* the last github_data_to_document call: its argument and its return value
VARIABLES github_data, converted

document_vars == <<github_data, converted>>

\* agent construction: the list object that is the default of JiraGraph's
\* tools parameter, and the instance constructed last
VARIABLES default_tools, graph

graph_vars == <<default_tools, graph>>

\* the module-level planner and replanner prompts of agent.py and the
\* engines whose build_graph has run, in order
VARIABLES planner_prompt, replanner_prompt, built

prompt_vars == <<planner_prompt, replanner_prompt, built>>

\* the console session: the chat list, the active chat, the thread id in
\* the run config, and the questions asked with the thread they ran under
VARIABLES chats, active_chat, config_thread_id, questions

chat_vars == <<chats, active_chat, config_thread_id, questions>>

\* the state of one request and its engine run
request_vars == <<engine_vars, router_vars, tool_vars, stream_vars, script>>

\* the state of the process outside a request
process_vars == <<repo_vars, document_vars, graph_vars, prompt_vars, chat_vars>>

vars == <<request_vars, process_vars>>

----------------------------------------------------------------------------
(* Bounds of the model *)

\* longest step list the oracle returns in the model
MaxPlanLen == 2

\* ceiling on node executions of one run (stands for recursion_limit)
MaxNodes == 6

(* Finite value universes *)
StepNames == {"fetch", "summarize"}
Results == {"r1", "r2"}
Texts == {"", "answer"}
Keys == {"jira.jql.c1", "github.commits.c2"}
Vals == {"v1", "v2"}

\* Python's None, distinct from every string the oracle returns
None == "<None>"

RECURSIVE SeqsUpTo(_, _)
SeqsUpTo(S, n) ==
  IF n = 0 THEN {<<>>}
  ELSE LET shorter == SeqsUpTo(S, n - 1)
       IN shorter \cup {Append(s, x) : s \in {t \in shorter : Len(t) = n - 1}, x \in S}

\* Plan.steps: List[str], the empty list included
PlanLists == SeqsUpTo(StepNames, MaxPlanLen)

\* Dict values of shared_data: maps from a finite set of keys
Dicts == UNION {[D -> Vals] : D \in SUBSET Keys}

\* shared_data the router holds when a request arrives: empty for the first
\* request of a thread, data of earlier requests afterwards
InitialStores == {<<>>, [k \in {"jira.jql.c1"} |-> "v1"]}

\* Act.action: Union[Response, Plan]
Acts == {[kind |-> "Response", response |-> t, steps |-> <<>>] : t \in Texts}
        \cup {[kind |-> "Plan", response |-> None, steps |-> s] : s \in PlanLists}

NoOutput == [kind |-> "none", response |-> None, steps |-> <<>>]

\* value of agent_response before the sub-agent has returned
NoResponse == [content |-> None, shared_data |-> <<>>]

\* no tool has been called yet
NoCall == [tool |-> "none", tool_call_id |-> <<>>, memory_key |-> <<>>,
           content |-> [type |-> "none", items |-> <<>>, len |-> 0]]

NoResult == [kind |-> "none", update |-> <<>>, messages |-> <<>>]

\* RouteDecision.agent: Literal["github", "jira"]
Agents == {"github", "jira"}

\* no scripted outputs: the oracle and the sub-agent answer freely
NoScript == [oracle |-> <<>>, agent |-> <<>>]

\* the chunk with which a finished sub-agent run ends: its final state
FinalValues == <<"values", 0>>

customs_all(agent_response_list) ==
  [i \in 1..Len(agent_response_list) |-> agent_response_list[i][2]]

\* customs = [x[1] for x in agent_response if x[0] == "custom"]
RECURSIVE customs(_)
customs(agent_response_list) ==
  IF agent_response_list = <<>> THEN <<>>
  ELSE (IF Head(agent_response_list)[1] = "custom"
        THEN <<Head(agent_response_list)[2]>> ELSE <<>>)
       \o customs(Tail(agent_response_list))

----------------------------------------------------------------------------
(* Channel reducers of PlanExecute *)

operator_add_last(old, new) == new

\* past_steps: Annotated[List[Tuple], operator.add]
operator_add(old, new) == old \o new

operator_or_replace(cur, patch) == patch

\* shared_data: Annotated[Dict, operator.or_]
operator_or(cur, patch) ==
  [k \in (DOMAIN cur) \cup (DOMAIN patch) |->
     IF k \in DOMAIN patch THEN patch[k] ELSE cur[k]]

Truthy_any(r) == TRUE

\* Python truthiness of the response channel: None and "" are falsy
Truthy(r) == r # None /\ r # ""

should_end_never(r) == "agent"

\* Agent.should_end
should_end(r) == IF Truthy(r) THEN "END" ELSE "agent"

next_node_agent_ends(node, r) ==
  CASE node = "planner" -> "agent"
    [] node = "agent" -> "END"
    [] node = "replan" -> should_end(r)

\* edges added in Agent.build_graph
next_node(node, r) ==
  CASE node = "planner" -> "agent"
    [] node = "agent" -> "replan"
    [] node = "replan" -> should_end(r)

----------------------------------------------------------------------------
(* The process before any request: module import and console start-up *)

RepoNames == {"o/a", "o/b", "o/c"}

NoRepo == [name |-> None, repo |-> 0]
NoData == [type |-> "none", items |-> <<>>]
NoGraph == [class |-> None, default |-> FALSE, supplied |-> <<>>, tools |-> <<>>]

\* a prompt: how many messages hold the {tools} placeholder, and the value
\* of its tools partial variable
Prompt(n, tools) == [tools_messages |-> n, tools |-> tools]

\* a chat of the console session
Chat(id, thread_id) == [id |-> id, thread_id |-> thread_id]

ProcessInit ==
  /\ repo_cache = <<>>
  /\ github_get_repo = [n \in RepoNames |-> 0]
  /\ repo_returned = NoRepo
  /\ github_data = NoData
  /\ converted = <<>>
  /\ default_tools = <<>>
  /\ graph = NoGraph
  /\ planner_prompt = Prompt(0, <<>>)
  /\ replanner_prompt = Prompt(0, <<>>)
  /\ built = <<>>
  /\ chats = <<Chat("1", None)>>
  /\ active_chat = 1
  /\ config_thread_id = "1"
  /\ questions = <<>>

----------------------------------------------------------------------------
(* Initial state: a request enters the router graph; no engine runs yet *)

Init ==
  /\ rpc = "route_query"
  /\ route_decision = None
  /\ final_response = ""
  /\ router_shared_data \in InitialStores
  /\ engine = "none"
  /\ github_runs = 0
  /\ jira_runs = 0
  /\ router_calls = 0
  /\ pc = "idle"
  /\ plan = <<>>
  /\ past_steps = <<>>
  /\ response = ""
  /\ shared_data = <<>>
  /\ oracle = NoOutput
  /\ agent_response = NoResponse
  /\ steps = 0
  /\ nPlan = 0
  /\ nExec = 0
  /\ nReplan = 0
  /\ oracle_calls = 0
  /\ agent_calls = 0
  /\ agent_state = <<>>
  /\ owner = <<>>
  /\ tool_call = NoCall
  /\ tool_result = NoResult
  /\ events = <<>>
  /\ stream = <<>>
  /\ observer = <<>>
  /\ emitted = 0
  /\ script = NoScript
  /\ ProcessInit

----------------------------------------------------------------------------
(* Router nodes *)

decide_route_always_github(decision) == "github"

\* SengyGraph.decide_route
decide_route(decision) == decision

route_target_reclassifies(label) == "route_query"

\* path map of the conditional edge after route_query
route_target(label) ==
  CASE label = "github" -> "execute_github"
    [] label = "jira" -> "execute_jira"

\* SengyGraph.route_query: the classifier returns a RouteDecision
route_query ==
  /\ rpc = "route_query"
  /\ \E d \in Agents :
       /\ route_decision' = d
       /\ rpc' = route_target(decide_route(d))
  /\ router_shared_data' = operator_or(router_shared_data, router_shared_data)
  /\ router_calls' = router_calls + 1
  /\ UNCHANGED <<final_response, engine, github_runs, jira_runs, engine_vars, tool_vars, stream_vars, script, process_vars>>

route_query_fail_retries ==
  /\ rpc = "route_query"
  /\ rpc' = "route_query"
  /\ router_calls' = router_calls + 1
  /\ UNCHANGED <<route_decision, final_response, router_shared_data,
                 engine, github_runs, jira_runs, engine_vars, tool_vars, stream_vars, script, process_vars>>

\* SengyGraph.route_query: the classifier call raises
route_query_fail ==
  /\ rpc = "route_query"
  /\ rpc' = "error"
  /\ router_calls' = router_calls + 1
  /\ UNCHANGED <<route_decision, final_response, router_shared_data,
                 engine, github_runs, jira_runs, engine_vars, tool_vars, stream_vars, script, process_vars>>

invoke_engine_empty_store ==
  /\ pc = "idle"
  /\ pc' = "planner"
  /\ plan' = <<>>
  /\ past_steps' = <<>>
  /\ response' = ""
  /\ shared_data' = <<>>
  /\ UNCHANGED <<oracle, steps, nPlan, nExec, nReplan,
                 oracle_calls, agent_calls, agent_response>>

\* the run state a router node hands to the engine's graph.invoke
invoke_engine ==
  /\ pc = "idle"
  /\ pc' = "planner"
  /\ plan' = <<>>
  /\ past_steps' = <<>>
  /\ response' = ""
  /\ shared_data' = router_shared_data
  /\ UNCHANGED <<oracle, steps, nPlan, nExec, nReplan,
                 oracle_calls, agent_calls, agent_response>>

\* SengyGraph.execute_github_agent: entry, github_agent.graph.invoke starts
execute_github_agent_invoke ==
  /\ rpc = "execute_github"
  /\ invoke_engine
  /\ engine' = "github"
  /\ github_runs' = github_runs + 1
  /\ UNCHANGED <<rpc, route_decision, final_response, router_shared_data, jira_runs, router_calls, tool_vars, stream_vars, script, process_vars>>

\* SengyGraph.execute_jira_agent: entry, jira_agent.graph.invoke starts
execute_jira_agent_invoke ==
  /\ rpc = "execute_jira"
  /\ invoke_engine
  /\ engine' = "jira"
  /\ jira_runs' = jira_runs + 1
  /\ UNCHANGED <<rpc, route_decision, final_response, router_shared_data, github_runs, router_calls, tool_vars, stream_vars, script, process_vars>>

engine_returns_last_result ==
  /\ pc = "END"
  /\ final_response' = agent_response.content
  /\ router_shared_data' = operator_or(router_shared_data, shared_data)
  /\ rpc' = "END"
  /\ UNCHANGED <<route_decision, engine, github_runs, jira_runs, router_calls, engine_vars, tool_vars, stream_vars, script, process_vars>>

\* the engine's run reached END: the router node returns its update
engine_returns ==
  /\ pc = "END"
  /\ final_response' = response
  /\ router_shared_data' = operator_or(router_shared_data, shared_data)
  /\ rpc' = "END"
  /\ UNCHANGED <<route_decision, engine, github_runs, jira_runs, router_calls, engine_vars, tool_vars, stream_vars, script, process_vars>>

\* SengyGraph.execute_github_agent: graph.invoke returned
execute_github_agent_return ==
  /\ rpc = "execute_github"
  /\ engine_returns

\* SengyGraph.execute_jira_agent: graph.invoke returned
execute_jira_agent_return ==
  /\ rpc = "execute_jira"
  /\ engine_returns

\* the engine's run aborted: the exception leaves the router node
execute_agent_raise ==
  /\ rpc \in {"execute_github", "execute_jira"}
  /\ pc = "error"
  /\ rpc' = "error"
  /\ UNCHANGED <<route_decision, final_response, router_shared_data,
                 engine, github_runs, jira_runs, router_calls, engine_vars, tool_vars, stream_vars, script, process_vars>>

----------------------------------------------------------------------------
(* Engine nodes *)

plan_step_keeps_response ==
  /\ pc = "planner"
  /\ steps < MaxNodes
  /\ \E s \in PlanLists :
       /\ oracle' = [kind |-> "Plan", response |-> None, steps |-> s]
       /\ plan' = s
       /\ UNCHANGED response
       /\ pc' = next_node("planner", response)
  /\ steps' = steps + 1
  /\ nPlan' = nPlan + 1
  /\ oracle_calls' = oracle_calls + 1
  /\ UNCHANGED <<past_steps, shared_data, nExec, nReplan, agent_calls, agent_response>>
  /\ UNCHANGED <<router_vars, tool_vars, stream_vars, script, process_vars>>

\* Agent.plan_step: the planner returns a Plan
plan_step ==
  /\ pc = "planner"
  /\ steps < MaxNodes
  /\ \E s \in PlanLists :
       /\ oracle' = [kind |-> "Plan", response |-> None, steps |-> s]
       /\ plan' = s
       /\ response' = None
       /\ pc' = next_node("planner", None)
  /\ steps' = steps + 1
  /\ nPlan' = nPlan + 1
  /\ oracle_calls' = oracle_calls + 1
  /\ UNCHANGED <<past_steps, shared_data, nExec, nReplan, agent_calls, agent_response>>
  /\ UNCHANGED <<router_vars, tool_vars, stream_vars, script, process_vars>>

\* Agent.plan_step: the planner call raises
plan_step_fail ==
  /\ pc = "planner"
  /\ steps < MaxNodes
  /\ pc' = "error"
  /\ oracle_calls' = oracle_calls + 1
  /\ UNCHANGED <<plan, past_steps, response, shared_data, oracle,
                 steps, nPlan, nExec, nReplan, agent_calls, agent_response>>
  /\ UNCHANGED <<router_vars, tool_vars, stream_vars, script, process_vars>>

last_step(p) == p[Len(p)]

\* task = plan[0]
first_step(p) == p[1]

execute_step_pops ==
  /\ pc = "agent"
  /\ steps < MaxNodes
  /\ plan # <<>>
  /\ \E result \in Results, patch \in Dicts :
       LET task == first_step(plan)
           agent_shared == operator_or(shared_data, patch)
       IN /\ agent_response' = [content |-> result, shared_data |-> agent_shared]
          /\ past_steps' = operator_add(past_steps, <<(<<task, result>>)>>)
          /\ shared_data' = operator_or(shared_data, agent_shared)
  /\ plan' = Tail(plan)
  /\ pc' = next_node("agent", response)
  /\ steps' = steps + 1
  /\ nExec' = nExec + 1
  /\ agent_calls' = agent_calls + 1
  /\ UNCHANGED <<response, oracle, nPlan, nReplan, oracle_calls>>
  /\ observer' = observer \o customs(Append(stream, FinalValues))
  /\ stream' = <<>>
  /\ UNCHANGED <<emitted, router_vars, tool_vars, script, process_vars>>

\* Agent.execute_step: the sub-agent runs plan[0] and returns
execute_step ==
  /\ pc = "agent"
  /\ steps < MaxNodes
  /\ plan # <<>>
  /\ \E result \in Results, patch \in Dicts :
       LET task == first_step(plan)
           agent_shared == operator_or(shared_data, patch)
       IN /\ agent_response' = [content |-> result, shared_data |-> agent_shared]
          /\ past_steps' = operator_add(past_steps, <<(<<task, result>>)>>)
          /\ shared_data' = operator_or(shared_data, agent_shared)
  /\ pc' = next_node("agent", response)
  /\ steps' = steps + 1
  /\ nExec' = nExec + 1
  /\ agent_calls' = agent_calls + 1
  /\ UNCHANGED <<plan, response, oracle, nPlan, nReplan, oracle_calls>>
  /\ observer' = observer \o customs(Append(stream, FinalValues))
  /\ stream' = <<>>
  /\ UNCHANGED <<emitted, router_vars, tool_vars, script, process_vars>>

\* Agent.execute_step: plan[0] on an empty list raises IndexError
execute_step_index_error ==
  /\ pc = "agent"
  /\ steps < MaxNodes
  /\ plan = <<>>
  /\ pc' = "error"
  /\ UNCHANGED <<plan, past_steps, response, shared_data, oracle,
                 steps, nPlan, nExec, nReplan, oracle_calls, agent_calls, agent_response>>
  /\ UNCHANGED <<router_vars, tool_vars, stream_vars, script, process_vars>>

execute_step_fail_swallowed ==
  /\ pc = "agent"
  /\ steps < MaxNodes
  /\ plan # <<>>
  /\ pc' = "replan"
  /\ steps' = steps + 1
  /\ agent_calls' = agent_calls + 1
  /\ UNCHANGED <<plan, past_steps, response, shared_data, oracle,
                 nPlan, nExec, nReplan, oracle_calls, agent_response>>
  /\ stream' = <<>>
  /\ UNCHANGED <<observer, emitted, router_vars, tool_vars, script, process_vars>>

\* Agent.execute_step: the sub-agent or a tool raises
execute_step_fail ==
  /\ pc = "agent"
  /\ steps < MaxNodes
  /\ plan # <<>>
  /\ pc' = "error"
  /\ agent_calls' = agent_calls + 1
  /\ UNCHANGED <<plan, past_steps, response, shared_data, oracle,
                 steps, nPlan, nExec, nReplan, oracle_calls, agent_response>>
  /\ stream' = <<>>
  /\ UNCHANGED <<observer, emitted, router_vars, tool_vars, script, process_vars>>

replan_step_appends ==
  /\ pc = "replan"
  /\ steps < MaxNodes
  /\ \E act \in Acts :
       /\ oracle' = act
       /\ IF act.kind = "Response"
          THEN /\ response' = act.response
               /\ UNCHANGED plan
               /\ pc' = next_node("replan", act.response)
          ELSE /\ plan' = plan \o act.steps
               /\ UNCHANGED response
               /\ pc' = next_node("replan", response)
  /\ steps' = steps + 1
  /\ nReplan' = nReplan + 1
  /\ oracle_calls' = oracle_calls + 1
  /\ UNCHANGED <<past_steps, shared_data, nPlan, nExec, agent_calls, agent_response>>
  /\ UNCHANGED <<router_vars, tool_vars, stream_vars, script, process_vars>>

\* Agent.replan_step followed by the conditional edge should_end
replan_step ==
  /\ pc = "replan"
  /\ steps < MaxNodes
  /\ \E act \in Acts :
       /\ oracle' = act
       /\ IF act.kind = "Response"
          THEN /\ response' = act.response
               /\ UNCHANGED plan
               /\ pc' = next_node("replan", act.response)
          ELSE /\ plan' = act.steps
               /\ UNCHANGED response
               /\ pc' = next_node("replan", response)
  /\ steps' = steps + 1
  /\ nReplan' = nReplan + 1
  /\ oracle_calls' = oracle_calls + 1
  /\ UNCHANGED <<past_steps, shared_data, nPlan, nExec, agent_calls, agent_response>>
  /\ UNCHANGED <<router_vars, tool_vars, stream_vars, script, process_vars>>

replan_step_fail_swallowed ==
  /\ pc = "replan"
  /\ steps < MaxNodes
  /\ pc' = "agent"
  /\ steps' = steps + 1
  /\ oracle_calls' = oracle_calls + 1
  /\ UNCHANGED <<plan, past_steps, response, shared_data, oracle,
                 nPlan, nExec, nReplan, agent_calls, agent_response>>
  /\ UNCHANGED <<router_vars, tool_vars, stream_vars, script, process_vars>>

\* Agent.replan_step: the replanner call raises
replan_step_fail ==
  /\ pc = "replan"
  /\ steps < MaxNodes
  /\ pc' = "error"
  /\ oracle_calls' = oracle_calls + 1
  /\ UNCHANGED <<plan, past_steps, response, shared_data, oracle,
                 steps, nPlan, nExec, nReplan, agent_calls, agent_response>>
  /\ UNCHANGED <<router_vars, tool_vars, stream_vars, script, process_vars>>

recursion_limit_unenforced ==
  /\ pc \in {"planner", "agent", "replan"}
  /\ steps >= MaxNodes
  /\ UNCHANGED vars

\* the graph's step ceiling: the next node is not started
recursion_limit_reached ==
  /\ pc \in {"planner", "agent", "replan"}
  /\ steps >= MaxNodes
  /\ pc' = "error"
  /\ UNCHANGED <<plan, past_steps, response, shared_data, oracle,
                 steps, nPlan, nExec, nReplan, oracle_calls, agent_calls, agent_response>>
  /\ UNCHANGED <<router_vars, tool_vars, stream_vars, script, process_vars>>

Next ==
  \/ route_query
  \/ route_query_fail
  \/ execute_github_agent_invoke
  \/ execute_github_agent_return
  \/ execute_jira_agent_invoke
  \/ execute_jira_agent_return
  \/ execute_agent_raise
  \/ plan_step
  \/ plan_step_fail
  \/ execute_step
  \/ execute_step_index_error
  \/ execute_step_fail
  \/ replan_step
  \/ replan_step_fail
  \/ recursion_limit_reached

Spec == Init /\ [][Next]_vars

\* SengyGraph.invoke called again on the same router after a request ended:
\* with the thread id of the earlier request the router's checkpoint is the
\* starting state and the new input is applied to it through the channels'
\* reducers; with another thread id the channels start empty
invoke_again ==
  /\ rpc \in {"END", "error"}
  /\ rpc' = "route_query"
  /\ route_decision' = None
  /\ final_response' = ""
  /\ \E same_thread \in BOOLEAN :
       router_shared_data' = operator_or(IF same_thread THEN router_shared_data ELSE <<>>,
                                         <<>>)
  /\ engine' = "none"
  /\ github_runs' = 0
  /\ jira_runs' = 0
  /\ router_calls' = 0
  /\ pc' = "idle"
  /\ plan' = <<>>
  /\ past_steps' = <<>>
  /\ response' = ""
  /\ shared_data' = <<>>
  /\ oracle' = NoOutput
  /\ agent_response' = NoResponse
  /\ steps' = 0
  /\ nPlan' = 0
  /\ nExec' = 0
  /\ nReplan' = 0
  /\ oracle_calls' = 0
  /\ agent_calls' = 0
  /\ stream' = <<>>
  /\ observer' = <<>>
  /\ emitted' = 0
  /\ UNCHANGED <<tool_vars, script, process_vars>>

\* the first request of a new router: nothing is stored yet
SessionInit == Init /\ router_shared_data = <<>>

SessionNext == Next \/ invoke_again

\* a sequence of requests handled by one router
SessionSpec == SessionInit /\ [][SessionNext]_vars

\* the graph executor always runs the next scheduled node, and every oracle
\* or tool call returns or raises
LiveSpec == Spec /\ WF_vars(Next)

----------------------------------------------------------------------------
(* Tools of the sub-agent (src/sengy/node): values *)

\* most list items the sub-agent's shared_data holds in the model
MaxItems == 2

\* most notices the tools of one run write in the model
MaxNotices == 2

\* most keys the sub-agent's shared_data holds in the model
MaxStored == 2

\* longest tool_call_id compared in the key-collision check
MaxIdLen == 2

\* items of a fetched list: "T1", "T2" are ticket dicts, "X1" is not a dict
Items == {"T1", "X1"}
ConvertibleItems == {"T1", "T2"}

\* Python values held in shared_data or passed as content, with their len()
ListOf(items) == [type |-> "list", items |-> items, len |-> Len(items)]
TextOf(n) == [type |-> "str", items |-> <<>>, len |-> n]
DictOf(n) == [type |-> "dict", items |-> <<>>, len |-> n]
NoneContent == [type |-> "none", items |-> <<>>, len |-> 0]

ItemLists == {ListOf(l) : l \in SeqsUpTo(Items, MaxItems)}

\* bool(content)
content_truthy(c) == c.type # "none" /\ c.len > 0

FetchTools == {"jql_query", "get_github_commits", "get_github_pull_requests",
               "get_github_commit_details", "get_github_pr_details"}

\* the engine whose tool list holds the tool
tool_engine(tool) == IF tool = "jql_query" THEN "jira" ELSE "github"

\* the literal part of each tool's f-string key, as a character sequence
tool_prefix(tool) ==
  CASE tool = "jql_query" -> <<"j", "i", "r", "a", ".", "j", "q", "l">>
    [] tool = "get_github_commits" -> <<"g", "i", "t", "h", "u", "b", ".", "c", "o", "m", "m", "i", "t", "s">>
    [] tool = "get_github_pull_requests" -> <<"g", "i", "t", "h", "u", "b", ".", "p", "r", "s">>
    [] tool = "get_github_commit_details" -> <<"g", "i", "t", "h", "u", "b", ".", "c", "o", "m", "m", "i", "t">>
    [] tool = "get_github_pr_details" -> <<"g", "i", "t", "h", "u", "b", ".", "p", "r">>

tool_key_no_separator(tool, id) == tool_prefix(tool) \o id

\* key = f"<prefix>.{tool_call_id}"
tool_key(tool, id) == tool_prefix(tool) \o <<".">> \o id

\* tool_call_id strings, as character sequences
IdChars == {"s", "1", "."}
CallIds == {<<"1">>, <<"s", "1">>}
IdUniverse == SeqsUpTo(IdChars, MaxIdLen)

\* what each tool's API call returns
fetched_data(tool) ==
  IF tool \in {"get_github_commit_details", "get_github_pr_details"}
  THEN {DictOf(3)}
  ELSE ItemLists

\* ticket_to_document(ticket) / Document(page_content=str(ticket))
ticket_to_document(item) == <<"ticket", item>>
str_document(item) == <<"str", item>>

documents_reversed(items) ==
  [i \in 1..Len(items) |-> str_document(items[Len(items) + 1 - i])]

\* the try/except list comprehensions building the chain's documents
documents(items) ==
  IF \A i \in 1..Len(items) : items[i] \in ConvertibleItems
  THEN [i \in 1..Len(items) |-> ticket_to_document(items[i])]
  ELSE [i \in 1..Len(items) |-> str_document(items[i])]

\* one entry of the trace of a tool call: a stream notice or a call it made
Event(e, n, docs) == [e |-> e, n |-> n, docs |-> docs]
Notice(e, n) == Event(e, n, <<>>)

\* chain.invoke(documents) of the map_reduce chain: one map call per
\* document, then the combine call; a failing call stops it after `done` steps
run_chain(docs, done) ==
  <<Event("chain.invoke", Len(docs), docs)>>
  \o [i \in 1..(IF done > Len(docs) THEN Len(docs) ELSE done) |->
        Event("map", i, <<docs[i]>>)]
  \o (IF done > Len(docs) THEN <<Event("reduce", Len(docs), <<>>)>> ELSE <<>>)

ChainTexts == {"combined"}
LlmTexts == {"json"}

Call(tool, id, memory_key, content) ==
  [tool |-> tool, tool_call_id |-> id, memory_key |-> memory_key, content |-> content]

Result(kind, update, messages) ==
  [kind |-> kind, update |-> update, messages |-> messages]

----------------------------------------------------------------------------
(* Tools of the sub-agent: one action per tool call *)

\* the sub-agent of a running engine is about to call tools
ToolInit ==
  /\ engine \in Agents
  /\ route_decision = engine
  /\ rpc = route_target(engine)
  /\ github_runs = (IF engine = "github" THEN 1 ELSE 0)
  /\ jira_runs = (IF engine = "jira" THEN 1 ELSE 0)
  /\ router_calls = 1
  /\ final_response = ""
  /\ router_shared_data = <<>>
  /\ pc = "agent"
  /\ plan = <<"fetch", "summarize">>
  /\ past_steps = <<>>
  /\ response = None
  /\ shared_data = <<>>
  /\ oracle = [kind |-> "Plan", response |-> None, steps |-> <<"fetch", "summarize">>]
  /\ agent_response = NoResponse
  /\ steps = 1
  /\ nPlan = 1
  /\ nExec = 0
  /\ nReplan = 0
  /\ oracle_calls = 1
  /\ agent_calls = 0
  /\ agent_state = <<>>
  /\ owner = <<>>
  /\ tool_call = NoCall
  /\ tool_result = NoResult
  /\ events = <<>>
  /\ stream = <<>>
  /\ observer = <<>>
  /\ emitted = 0
  /\ script = NoScript
  /\ ProcessInit

\* number of list items held in a shared_data dict
RECURSIVE stored_items(_)
stored_items(d) ==
  IF DOMAIN d = {} THEN 0
  ELSE LET k == CHOOSE x \in DOMAIN d : TRUE
       IN d[k].len * (IF d[k].type = "list" THEN 1 ELSE 0)
          + stored_items([x \in DOMAIN d \ {k} |-> d[x]])

\* memory keys a call names: the stored ones and one that is not stored
MemoryKeys == DOMAIN agent_state \cup {tool_key("jql_query", <<"0">>)}

\* a fetch tool: the API call returns and the tool returns a Command, which
\* the sub-agent applies to its shared_data through operator.or_
fetch(tool) ==
  /\ engine = tool_engine(tool)
  /\ \E id \in CallIds, data \in fetched_data(tool) :
       LET key == tool_key(tool, id)
           update == (key :> data)
       IN /\ (key \in DOMAIN agent_state \/ Cardinality(DOMAIN agent_state) < MaxStored)
          /\ stored_items(operator_or(agent_state, update)) <= MaxItems
          /\ tool_call' = Call(tool, id, <<>>, NoneContent)
          /\ tool_result' = Result("Command", update, <<"memory key">>)
          /\ agent_state' = operator_or(agent_state, update)
          /\ owner' = operator_or(owner, (key :> <<tool, id>>))
          /\ events' = <<Event("api", 0, <<>>)>>
  /\ UNCHANGED <<engine_vars, router_vars, stream_vars, script, process_vars>>

\* PowerJiraToolkit jql_query
jql_query == fetch("jql_query")

\* PowerGitHubToolkit get_github_commits
get_github_commits == fetch("get_github_commits")

\* PowerGitHubToolkit get_github_pull_requests
get_github_pull_requests == fetch("get_github_pull_requests")

\* PowerGitHubToolkit get_github_commit_details
get_github_commit_details == fetch("get_github_commit_details")

\* PowerGitHubToolkit get_github_pr_details
get_github_pr_details == fetch("get_github_pr_details")

\* a fetch tool whose API call raises: the exception leaves the tool
fetch_raises ==
  /\ \E tool \in FetchTools, id \in CallIds :
       /\ engine = tool_engine(tool)
       /\ tool_call' = Call(tool, id, <<>>, NoneContent)
  /\ tool_result' = Result("raise", <<>>, <<>>)
  /\ events' = <<Event("api", 0, <<>>)>>
  /\ UNCHANGED <<agent_state, owner, engine_vars, router_vars, stream_vars, script, process_vars>>

\* the notices, chain calls and result of the map-reduce branch of both tools
map_reduce_eager_notice(before, start, complete, docs, done, text) ==
  LET ok == done > Len(docs)
  IN /\ events' = before \o start \o <<Notice("Running", Len(docs))>>
                  \o <<Notice(complete, 0)>> \o run_chain(docs, done)
     /\ tool_result' = (IF ok THEN Result("messages", <<>>, <<text>>)
                        ELSE Result("raise", <<>>, <<>>))

\* the map-reduce branch of both tools: notices, chain.invoke, completion
map_reduce(before, start, complete, docs, done, text) ==
  LET ok == done > Len(docs)
  IN /\ events' = before \o start \o <<Notice("Running", Len(docs))>>
                  \o run_chain(docs, done)
                  \o (IF ok THEN <<Notice(complete, 0)>> ELSE <<>>)
     /\ tool_result' = (IF ok THEN Result("messages", <<>>, <<text>>)
                        ELSE Result("raise", <<>>, <<>>))

\* analysis.py: `if content:`
is_map_reduce_analysis(content) == content_truthy(content)

is_map_reduce_summary_many(content) ==
  content_truthy(content) /\ content.type = "list" /\ content.len > 1

\* summarise.py: `if content and isinstance(content, list) and len(content) > 0:`
is_map_reduce_summary(content) ==
  content_truthy(content) /\ content.type = "list" /\ content.len > 0

\* analyze_content_tool(dimensions, memory_key, state)
analyze_content_tool ==
  /\ \E memory_key \in MemoryKeys :
       LET found == memory_key \in DOMAIN agent_state
           content == IF found THEN agent_state[memory_key] ELSE NoneContent
           before == IF found THEN <<Notice("SHARED DATA FOUND", content.len)>> ELSE <<>>
           docs == IF content.type = "list" THEN documents(content.items)
                   ELSE <<str_document("content")>>
       IN /\ tool_call' = Call("analyze_content_tool", <<>>, memory_key, NoneContent)
          /\ IF is_map_reduce_analysis(content)
             THEN \E done \in 0..(Len(docs) + 1), text \in ChainTexts :
                    map_reduce(before, <<Notice("MAP-REDUCE ANALYSIS", content.len)>>,
                               "MAP-REDUCE ANALYSIS COMPLETE", docs, done, text)
             ELSE /\ events' = before
                  /\ tool_result' = Result("messages", <<>>, <<"Failure to analyze content">>)
  /\ UNCHANGED <<agent_state, owner, engine_vars, router_vars, stream_vars, script, process_vars>>

\* summarise_content_tool(dimensions, content, memory_key, state); the plain
\* branch builds a HumanMessage from the content and calls the model once
summarise_content_tool ==
  /\ \E memory_key \in MemoryKeys \cup {<<>>}, content_arg \in {NoneContent, TextOf(4)} :
       LET found == memory_key # <<>> /\ memory_key \in DOMAIN agent_state
           content == IF found THEN agent_state[memory_key] ELSE content_arg
           before == IF found THEN <<Notice("CONTENT FOUND", 0)>> ELSE <<>>
           docs == documents(content.items)
           outcomes == {"ok", "llm raises"}
                       \cup (IF content.type \in {"none", "dict"}
                             THEN {"invalid message"} ELSE {})
       IN /\ (found => content_arg = TextOf(4))
          /\ tool_call' = Call("summarise_content_tool", <<>>, memory_key, content_arg)
          /\ IF is_map_reduce_summary(content)
             THEN \E done \in 0..(Len(docs) + 1), text \in ChainTexts :
                    map_reduce(before, <<Notice("MAP-REDUCE SUMMARY", content.len)>>,
                               "MAP-REDUCE COMPLETE", docs, done, text)
             ELSE \E outcome \in outcomes, text \in LlmTexts :
                    /\ events' = before \o <<Notice("TEXT SUMMARY", 0)>>
                         \o (IF outcome = "invalid message" THEN <<>>
                             ELSE <<Event("llm.invoke", 1, <<>>)>>)
                         \o (IF outcome = "ok"
                             THEN <<Notice("TEXT SUMMARY COMPLETE", 0)>> ELSE <<>>)
                    /\ tool_result' = (IF outcome = "ok"
                                       THEN Result("messages", <<>>, <<text>>)
                                       ELSE Result("raise", <<>>, <<>>))
  /\ UNCHANGED <<agent_state, owner, engine_vars, router_vars, stream_vars, script, process_vars>>

ToolNext ==
  \/ jql_query
  \/ get_github_commits
  \/ get_github_pull_requests
  \/ get_github_commit_details
  \/ get_github_pr_details
  \/ fetch_raises
  \/ analyze_content_tool
  \/ summarise_content_tool

ToolSpec == ToolInit /\ [][ToolNext]_vars

----------------------------------------------------------------------------
(* The custom stream of a sub-agent run inside execute_step *)

\* a tool of the running sub-agent calls writer({"custom_data": ...}); the
\* n-th notice of the run is the number n
tool_writes_notice ==
  /\ pc = "agent"
  /\ steps < MaxNodes
  /\ emitted < MaxNotices
  /\ emitted' = emitted + 1
  /\ stream' = Append(stream, <<"custom", emitted + 1>>)
  /\ UNCHANGED <<observer, engine_vars, router_vars, tool_vars, script, process_vars>>

\* a step of the running sub-agent ends: its state is streamed as a values
\* chunk
agent_values_chunk ==
  /\ pc = "agent"
  /\ steps < MaxNodes
  /\ stream # <<>>
  /\ stream[Len(stream)][1] = "custom"
  /\ stream' = Append(stream, FinalValues)
  /\ UNCHANGED <<observer, emitted, engine_vars, router_vars, tool_vars, script, process_vars>>

\* the jira engine has planned and is about to run its first step
StreamInit == ToolInit /\ engine = "jira"

StreamNext ==
  \/ tool_writes_notice
  \/ agent_values_chunk
  \/ execute_step
  \/ execute_step_index_error
  \/ execute_step_fail
  \/ replan_step
  \/ replan_step_fail
  \/ recursion_limit_reached

StreamSpec == StreamInit /\ [][StreamNext]_vars

----------------------------------------------------------------------------
(* A request served by a scripted oracle and a scripted sub-agent *)

\* scripts of the shape Plan, step, Continue, step, Conclude: the planner's
\* two steps, the first step's result and one-key patch, the steps of the
\* Continue decision, the second step's result, and the final answer
Scripts ==
  {[oracle |-> <<[kind |-> "Plan", response |-> None, steps |-> p],
                 [kind |-> "Plan", response |-> None, steps |-> c],
                 [kind |-> "Response", response |-> t, steps |-> <<>>]>>,
    agent |-> <<[content |-> r1, patch |-> [k \in {key} |-> val]],
                [content |-> r2, patch |-> <<>>]>>] :
     p \in {x \in PlanLists : Len(x) = 2},
     c \in {x \in PlanLists : Len(x) >= 1},
     t \in {x \in Texts : x # ""},
     r1 \in Results, r2 \in Results, key \in Keys, val \in Vals}

\* every oracle call and every sub-agent call returns the next scripted
\* output; the classifier returns a decision; no call raises
FollowsScript ==
  /\ pc' # "error"
  /\ rpc' # "error"
  /\ (oracle_calls' # oracle_calls =>
        /\ oracle_calls' <= Len(script.oracle)
        /\ oracle' = script.oracle[oracle_calls'])
  /\ (agent_calls' # agent_calls =>
        /\ agent_calls' <= Len(script.agent)
        /\ agent_response' =
             [content |-> script.agent[agent_calls'].content,
              shared_data |-> operator_or(shared_data, script.agent[agent_calls'].patch)])

\* a first request with a script installed
ScenarioInit ==
  /\ rpc = "route_query"
  /\ route_decision = None
  /\ final_response = ""
  /\ router_shared_data = <<>>
  /\ engine = "none"
  /\ github_runs = 0
  /\ jira_runs = 0
  /\ router_calls = 0
  /\ pc = "idle"
  /\ plan = <<>>
  /\ past_steps = <<>>
  /\ response = ""
  /\ shared_data = <<>>
  /\ oracle = NoOutput
  /\ agent_response = NoResponse
  /\ steps = 0
  /\ nPlan = 0
  /\ nExec = 0
  /\ nReplan = 0
  /\ oracle_calls = 0
  /\ agent_calls = 0
  /\ agent_state = <<>>
  /\ owner = <<>>
  /\ tool_call = NoCall
  /\ tool_result = NoResult
  /\ events = <<>>
  /\ stream = <<>>
  /\ observer = <<>>
  /\ emitted = 0
  /\ script \in Scripts
  /\ ProcessInit

ScenarioNext == Next /\ FollowsScript

ScenarioSpec == ScenarioInit /\ [][ScenarioNext]_vars

----------------------------------------------------------------------------
(* Properties of the engine *)

\* a replan_step has just completed with a Conclude (Response) decision
ConcludeStep == nReplan' = nReplan + 1 /\ oracle'.kind = "Response"

\* a replan_step has just completed with a Continue (Plan) decision
ContinueStep == nReplan' = nReplan + 1 /\ oracle'.kind = "Plan"

\* C1: terminality is absorbing.  The response channel holds a final answer
\* only in the END position of the graph, and from END no planner, agent or
\* replan node is executed any more in the run.
Thm_C1_TerminalAbsorbing ==
  [][ /\ (Truthy(response') => pc' = "END")
      /\ (pc = "END" => UNCHANGED <<nPlan, nExec, nReplan, steps>>) ]_vars

Wit_C1_Terminal == pc = "END" /\ Truthy(response) /\ nExec >= 1

\* C2: every replan_step that receives a Conclude decision stores the
\* oracle's response text and ends the run (the agent node is not entered
\* again), whatever the text is.
Claim_C2_ConcludeEnds ==
  [][ ConcludeStep => (response' = oracle'.response /\ pc' = "END") ]_vars

\* C3: the run follows planner -> agent -> replan -> (agent | END).  The
\* planner runs once and first, the node after agent is replan, the node
\* after replan is agent or the end of the run, and END is entered only from
\* replan.  A run that aborts ("error") executes no further node.
Thm_C3_StateMachine ==
  [][ /\ (nPlan' # nPlan => (steps = 0 /\ nPlan = 0))
      /\ ((nExec' # nExec \/ nReplan' # nReplan) => nPlan = 1)
      /\ (pc = "planner" => pc' \in {"agent", "error"})
      /\ (pc = "agent" => pc' \in {"replan", "error"})
      /\ (nExec' # nExec => pc' = "replan")
      /\ (pc = "replan" => pc' \in {"agent", "END", "error"})
      /\ ((pc' = "END" /\ pc # "END") => (pc = "replan" /\ nReplan' # nReplan))
      /\ (pc \in {"END", "error"} => pc' = pc) ]_vars

Wit_C3_LoopThenEnd == pc = "END" /\ nPlan = 1 /\ nExec = 2 /\ nReplan = 2

\* C4: the agent node is never entered with an empty plan, for every step
\* list the planner or a Continue replan may return.
Claim_C4_PlanNonEmptyAtExecute == pc = "agent" => plan # <<>>

\* C5: the length of past_steps equals the number of completed
\* execute_steps, and past_steps only grows by appending one pair at a time:
\* earlier pairs are never removed or changed.
Thm_C5_HistoryAppendOnly ==
  [][ /\ Len(past_steps') = nExec'
      /\ \/ past_steps' = past_steps
         \/ /\ nExec' = nExec + 1
            /\ Len(past_steps') = Len(past_steps) + 1
            /\ SubSeq(past_steps', 1, Len(past_steps)) = past_steps ]_vars

Wit_C5_TwoPairs == Len(past_steps) = 2 /\ nExec = 2 /\ past_steps[1] # past_steps[2]

\* C6: execute_step leaves plan unchanged (the consumed step stays in it);
\* plan changes only in plan_step and replan_step.
Thm_C6_ExecuteKeepsPlan ==
  [][ /\ (nExec' # nExec => plan' = plan)
      /\ (plan' # plan => (nPlan' # nPlan \/ nReplan' # nReplan)) ]_vars

Wit_C6_ExecutedPlanKept ==
  pc = "replan" /\ nExec >= 1 /\ Len(plan) = 2 /\ past_steps[Len(past_steps)][1] = plan[1]

\* C7: a replan_step that returns a Conclude decision leaves a remaining
\* plan of length zero.
Claim_C7_ConcludeEmptiesPlan ==
  [][ ConcludeStep => Len(plan') = 0 ]_vars

\* C8: response is written only by plan_step (clearing it) and by a Conclude
\* replan_step, and once the Conclude replan has written it after plan_step
\* it is never overwritten.
Claim_C8_AnswerSetOnce ==
  [][ /\ (response' # response => (nPlan' # nPlan \/ ConcludeStep))
      /\ ((nPlan = 1 /\ response # None) => response' = response) ]_vars

\* C9: plan_step replaces plan with the planner's step list, sets response
\* to None, and leaves past_steps and shared_data unchanged.
Thm_C9_PlanStepEffect ==
  [][ nPlan' # nPlan =>
        /\ oracle'.kind = "Plan"
        /\ plan' = oracle'.steps
        /\ response' = None
        /\ past_steps' = past_steps
        /\ shared_data' = shared_data ]_vars

Wit_C9_Planned ==
  nPlan = 1 /\ pc = "agent" /\ nExec = 0 /\ response = None /\ Len(plan) = 2

\* C10: a Continue replan replaces plan with exactly the oracle's new step
\* list, leaves past_steps, shared_data and response unchanged, and the next
\* node is agent.
Thm_C10_ContinueEffect ==
  [][ ContinueStep =>
        /\ plan' = oracle'.steps
        /\ past_steps' = past_steps
        /\ shared_data' = shared_data
        /\ response' = response
        /\ pc' = "agent" ]_vars

Wit_C10_Continued ==
  /\ pc = "agent" /\ nReplan >= 1 /\ oracle.kind = "Plan"
  /\ plan # <<>> /\ plan[1] # past_steps[Len(past_steps)][1]

----------------------------------------------------------------------------
(* Properties of the shared-state store *)

\* C11: merging two patches with disjoint key sets into the store gives the
\* same store in either order, and merging is associative for all patches.
Thm_C11_MergeCommutesAssociates ==
  \A P1, P2 \in Dicts :
    /\ (DOMAIN P1) \cap (DOMAIN P2) = {} =>
         operator_or(operator_or(shared_data, P1), P2)
           = operator_or(operator_or(shared_data, P2), P1)
    /\ operator_or(operator_or(shared_data, P1), P2)
         = operator_or(shared_data, operator_or(P1, P2))

Wit_C11_TwoNamespacesMerged ==
  /\ router_shared_data = <<>> /\ nExec = 2 /\ pc = "replan"
  /\ DOMAIN shared_data = Keys
  /\ shared_data["jira.jql.c1"] # shared_data["github.commits.c2"]

\* C13: in a run shared_data is only merged.  A key once present stays
\* present, its value changes only in an execute_step whose merged patch holds
\* that key with the new value, and plan_step and replan_step leave
\* shared_data unchanged.
Thm_C13_SharedDataOnlyMerged ==
  [][ /\ \A k \in DOMAIN shared_data :
           /\ k \in DOMAIN shared_data'
           /\ shared_data'[k] # shared_data[k] =>
                /\ nExec' = nExec + 1
                /\ k \in DOMAIN agent_response'.shared_data
                /\ agent_response'.shared_data[k] = shared_data'[k]
      /\ (shared_data' # shared_data => (nExec' = nExec + 1 \/ pc = "idle"))
      /\ ((nPlan' # nPlan \/ nReplan' # nReplan) => shared_data' = shared_data) ]_vars

Wit_C13_ValueOverwritten ==
  /\ pc = "END" /\ nReplan >= 2
  /\ DOMAIN router_shared_data = {"jira.jql.c1"}
  /\ DOMAIN shared_data = Keys
  /\ shared_data["jira.jql.c1"] # router_shared_data["jira.jql.c1"]

----------------------------------------------------------------------------
(* Failure properties of the engine *)

\* a planner or replanner call was made and raised
FailedOracleCall ==
  oracle_calls' = oracle_calls + 1 /\ nPlan' = nPlan /\ nReplan' = nReplan

\* the sub-agent was invoked and raised
FailedAgentCall == agent_calls' = agent_calls + 1 /\ nExec' = nExec

\* C18: an oracle failure in plan_step or replan_step aborts the run.  The
\* failing call is made once, plan, past_steps, shared_data and response keep
\* their values, no node executes afterwards, and the router node that
\* delegated the run does not return normally.
Thm_C18_OracleFailureAborts ==
  [][ /\ FailedOracleCall =>
           /\ pc' = "error"
           /\ UNCHANGED <<plan, past_steps, response, shared_data>>
      /\ oracle_calls' <= nPlan' + nReplan' + 1
      /\ pc = "error" => (UNCHANGED engine_vars /\ rpc' = "error"
                          /\ final_response' = final_response) ]_vars

Wit_C18_ReplannerFailed ==
  /\ pc = "error" /\ rpc = "error"
  /\ nReplan >= 1 /\ oracle_calls = nPlan + nReplan + 1

\* C19: a tool failure during execute_step is fatal to the run.  The
\* exception leaves the sub-agent and the node, no pair is appended to
\* past_steps, no patch is merged into shared_data, and no node executes
\* afterwards.
Thm_C19_ToolFailureFatal ==
  [][ /\ FailedAgentCall =>
           /\ pc' = "error"
           /\ UNCHANGED <<plan, past_steps, shared_data, agent_response, response>>
      /\ agent_calls' <= nExec' + 1
      /\ pc = "error" => (UNCHANGED <<past_steps, shared_data, nExec, steps>>
                          /\ rpc' = "error") ]_vars

Wit_C19_ToolFailed ==
  /\ pc = "error" /\ rpc = "error"
  /\ nExec >= 1 /\ agent_calls = nExec + 1 /\ Len(past_steps) = nExec

----------------------------------------------------------------------------
(* Properties of the router *)

\* C20: for every request whose classification returns, the router runs
\* exactly one engine, the one the route decision names.  The decision is
\* always "github" or "jira"; no request runs both engines, and a request
\* that ends has run one.
Thm_C20_ExactlyOneEngine ==
  [][ /\ github_runs' # github_runs =>
           (route_decision = "github" /\ github_runs = 0 /\ jira_runs = 0)
      /\ jira_runs' # jira_runs =>
           (route_decision = "jira" /\ github_runs = 0 /\ jira_runs = 0)
      /\ route_decision' # route_decision =>
           (route_decision' \in Agents /\ rpc' \in {"execute_github", "execute_jira"})
      /\ pc' # "idle" => github_runs' + jira_runs' = 1
      /\ rpc' = "END" =>
           /\ github_runs' + jira_runs' = 1
           /\ engine' = route_decision'
           /\ (route_decision' = "github" <=> github_runs' = 1) ]_vars

Wit_C20_JiraOnly ==
  rpc = "END" /\ route_decision = "jira" /\ jira_runs = 1 /\ github_runs = 0

----------------------------------------------------------------------------
(* Properties of the tools *)

AnalysisTools == {"analyze_content_tool", "summarise_content_tool"}

\* the last call was an analysis tool whose memory key names a stored list
ListCall ==
  /\ tool_call.tool \in AnalysisTools
  /\ tool_call.memory_key \in DOMAIN agent_state
  /\ agent_state[tool_call.memory_key].type = "list"

\* positions of the last call's events of one kind
EventsOf(e) == {i \in 1..Len(events) : events[i].e = e}

\* C12: merging a patch into the current shared_data is a key-wise union:
\* a key only in the current value keeps its value, a key in the patch takes
\* the patch's value, and no other key appears.
Thm_C12_MergeIsKeywiseUnion ==
  [][tool_result'.kind = "Command" =>
       LET patch == tool_result'.update
       IN /\ DOMAIN agent_state' = DOMAIN agent_state \cup DOMAIN patch
          /\ \A k \in DOMAIN patch : agent_state'[k] = patch[k]
          /\ \A k \in DOMAIN agent_state \ DOMAIN patch :
               agent_state'[k] = agent_state[k]]_vars

\* a patch was merged into a shared_data that holds another key as well
Wit_C12_PatchBesideOtherKey ==
  /\ tool_result.kind = "Command"
  /\ \E k \in DOMAIN agent_state : k \notin DOMAIN tool_result.update

\* C14: a fetch tool's patch has exactly one key, '<tool-prefix>.<tool_call_id>',
\* holding the fetched data; no other (tool, tool_call_id) pair has that key,
\* and a stored key is only ever rewritten by the pair that wrote it.
Thm_C14_OneNamespacedKey ==
  [][tool_result'.kind = "Command" =>
       LET tool == tool_call'.tool
           id == tool_call'.tool_call_id
           patch == tool_result'.update
       IN /\ Cardinality(DOMAIN patch) = 1
          /\ \A k \in DOMAIN patch :
               /\ k = tool_prefix(tool) \o <<".">> \o id
               /\ patch[k] \in fetched_data(tool)
               /\ \A t2 \in FetchTools, i2 \in IdUniverse :
                    <<t2, i2>> # <<tool, id>> => tool_key(t2, i2) # k
               /\ k \in DOMAIN agent_state => owner[k] = <<tool, id>>]_vars

\* two tools called with the same tool_call_id both have their data stored
Wit_C14_SameIdTwoTools ==
  /\ tool_result.kind = "Command"
  /\ \E k1 \in DOMAIN owner, k2 \in DOMAIN owner :
       /\ owner[k1][1] # owner[k2][1]
       /\ owner[k1][2] = owner[k2][2]

\* C15: given an empty list, neither analysis tool calls the chain or the
\* model (zero oracle calls).
Claim_C15_EmptyListNoOracle ==
  (ListCall /\ agent_state[tool_call.memory_key].len = 0)
    => /\ EventsOf("chain.invoke") = {}
       /\ EventsOf("map") = {}
       /\ EventsOf("reduce") = {}
       /\ EventsOf("llm.invoke") = {}

\* C16: given a one-item list, both tools still invoke the map-reduce chain
\* (one map step, one reduce step), and a returned result has the shape of
\* the many-item result: one message holding the chain's output.
Thm_C16_SingleItemRunsChain ==
  ListCall =>
    LET n == agent_state[tool_call.memory_key].len
    IN /\ n = 1 =>
            /\ Cardinality(EventsOf("chain.invoke")) = 1
            /\ EventsOf("llm.invoke") = {}
            /\ tool_result.kind = "messages" =>
                 /\ Cardinality(EventsOf("map")) = 1
                 /\ Cardinality(EventsOf("reduce")) = 1
       /\ (n >= 1 /\ tool_result.kind = "messages") =>
            /\ Len(tool_result.messages) = 1
            /\ tool_result.messages[1] \in ChainTexts

\* a call on a one-item list returned
Wit_C16_SingleItemReturned ==
  /\ ListCall
  /\ agent_state[tool_call.memory_key].len = 1
  /\ tool_call.tool = "summarise_content_tool"
  /\ tool_result.kind = "messages"

\* C17: given a non-empty list, the chain is invoked exactly once, with one
\* document per item in the items' order, whether the items convert as
\* tickets or not.
Thm_C17_OneDocumentPerItem ==
  (ListCall /\ agent_state[tool_call.memory_key].len >= 1) =>
    LET items == agent_state[tool_call.memory_key].items
    IN /\ Cardinality(EventsOf("chain.invoke")) = 1
       /\ \A i \in EventsOf("chain.invoke") :
            /\ Len(events[i].docs) = Len(items)
            /\ \A j \in 1..Len(items) : events[i].docs[j][2] = items[j]

\* the chain ran on a list whose items do not all convert as tickets
Wit_C17_MixedListAnalysed ==
  /\ ListCall
  /\ agent_state[tool_call.memory_key].items = <<"T1", "X1">>
  /\ tool_call.tool = "analyze_content_tool"
  /\ EventsOf("reduce") # {}

----------------------------------------------------------------------------
(* Properties of the router *)

\* C21: the final_response the router returns is the response with which
\* the delegated engine's run reached END, unchanged.
Thm_C21_RouterRelaysAnswer ==
  rpc = "END" => (pc = "END" /\ final_response = response)

Wit_C21_AnswerRelayed == rpc = "END" /\ final_response = "answer" /\ nExec = 1

\* C23: route_decision is written by route_query only, once per request,
\* and never afterwards; the engine that is started is the one it names.
Thm_C23_DecisionImmutable ==
  [][ /\ (route_decision' # route_decision =>
            (rpc = "route_query" /\ route_decision = None
             /\ router_calls' = router_calls + 1))
      /\ (rpc # "route_query" => route_decision' = route_decision)
      /\ (engine' # engine => engine' = route_decision) ]_vars

Wit_C23_DecisionKept ==
  rpc = "END" /\ route_decision = "github" /\ engine = "github" /\ router_calls = 1

\* C24: the classifier is called once per request; when the call fails the
\* request stops in error, no engine is started and final_response stays
\* unset.
Thm_C24_ClassificationFailureFatal ==
  [][ /\ router_calls' <= 1
      /\ ((router_calls' # router_calls /\ route_decision' = None) =>
            (rpc' = "error" /\ engine' = "none" /\ pc' = "idle"
             /\ github_runs' + jira_runs' = 0 /\ final_response' = ""))
      /\ (rpc = "error" =>
            (rpc' = "error" /\ UNCHANGED <<engine, github_runs, jira_runs,
                                           final_response, pc>>)) ]_vars

Wit_C24_ClassifierFailed ==
  rpc = "error" /\ route_decision = None /\ router_calls = 1 /\ engine = "none"

\* C25: the engine's initial shared_data is the router's shared_data at
\* delegation; the router's final shared_data is its prior shared_data
\* merged with the engine's final shared_data; route_query adds no key and
\* the router's shared_data does not change while the engine runs.
Thm_C25_JoinedAtBoundary ==
  [][ /\ ((pc = "idle" /\ pc' # "idle") => shared_data' = router_shared_data)
      /\ ((rpc # "END" /\ rpc' = "END") =>
            /\ DOMAIN router_shared_data' =
                 DOMAIN router_shared_data \cup DOMAIN shared_data
            /\ \A k \in DOMAIN shared_data :
                 router_shared_data'[k] = shared_data[k]
            /\ \A k \in DOMAIN router_shared_data \ DOMAIN shared_data :
                 router_shared_data'[k] = router_shared_data[k])
      /\ (rpc' # "END" => router_shared_data' = router_shared_data) ]_vars

\* a run that started from a stored key returned with a second key
Wit_C25_EngineKeysJoined ==
  /\ rpc = "END"
  /\ "jira.jql.c1" \in DOMAIN router_shared_data
  /\ "github.commits.c2" \in DOMAIN router_shared_data
  /\ router_shared_data = shared_data

\* C27: the run reaches END only in a replan_step whose oracle returned a
\* Response (Conclude); a replan_step whose oracle returned a Plan
\* (Continue) is never followed by END.
Thm_C27_ReplanDecidesEnd ==
  [][ /\ ((pc # "END" /\ pc' = "END") =>
            (pc = "replan" /\ nReplan' = nReplan + 1
             /\ oracle'.kind = "Response" /\ response' = oracle'.response))
      /\ ((nReplan' # nReplan /\ oracle'.kind = "Plan") => pc' = "agent") ]_vars

Wit_C27_ContinueThenConclude ==
  pc = "END" /\ nReplan = 2 /\ oracle.kind = "Response" /\ rpc # "END"

\* C28: every request eventually stops, in END with a final answer or in
\* error; a run never executes more than MaxNodes nodes, and a run whose
\* oracle keeps answering Continue is aborted at that ceiling.
Thm_C28_RunStops ==
  /\ [](steps <= MaxNodes)
  /\ <>((rpc = "END" /\ Truthy(final_response)) \/ rpc = "error")

\* a run was cut off at the ceiling after its oracle answered Continue
Wit_C28_CutOffAtCeiling ==
  /\ rpc = "error"
  /\ steps = MaxNodes
  /\ oracle.kind = "Plan"
  /\ nReplan >= 2

\* C29: a Continue decision never brings back a step that was already
\* completed: no (step, result) pair appears twice in past_steps.
Claim_C29_NoRepeatedStep ==
  \A i \in 1..Len(past_steps), j \in 1..Len(past_steps) :
    i # j => past_steps[i] # past_steps[j]

\* C22: each delegated engine run starts from a fresh run state: empty
\* plan, empty history, no final answer, and the shared_data the router
\* passes, which holds nothing but the request's own (empty) shared_data:
\* no key written by an earlier request's run.
Claim_C22_FreshRunState ==
  [][ (pc = "idle" /\ pc' = "planner") =>
        /\ plan' = <<>>
        /\ past_steps' = <<>>
        /\ ~Truthy(response')
        /\ shared_data' = router_shared_data
        /\ shared_data' = <<>> ]_vars

----------------------------------------------------------------------------
(* Properties of the custom stream *)

\* payloads of the custom chunks of a stream, as a set
CustomPayloads(chunks) ==
  {chunks[i][2] : i \in {j \in 1..Len(chunks) : chunks[j][1] = "custom"}}

\* C26: what execute_step writes to the observer are notices the tools
\* wrote, unmodified, in the order they were written and each at most
\* once; a completed execute_step forwards every notice of its sub-agent
\* run.
Thm_C26_NoticesForwardedInOrder ==
  [][ /\ \A i \in 1..Len(observer') : observer'[i] \in 1..emitted'
      /\ \A i \in 1..Len(observer'), j \in 1..Len(observer') :
           i < j => observer'[i] < observer'[j]
      /\ (nExec' # nExec =>
            /\ SubSeq(observer', 1, Len(observer)) = observer
            /\ {observer'[i] : i \in (Len(observer) + 1)..Len(observer')}
                 = CustomPayloads(stream)) ]_vars

\* two execute_steps each forwarded one notice
Wit_C26_ForwardedOverTwoSteps ==
  /\ observer = <<1, 2>>
  /\ nExec = 2
  /\ Len(past_steps) = 2
  /\ stream = <<>>

----------------------------------------------------------------------------
(* End-to-end scenario *)

\* C30: with the scripted outputs Plan [s1, s2], first step result and
\* patch {key: val}, Continue [s3, ...], second step result, Conclude(text),
\* the request ends after exactly two execute_steps with a history of the
\* two pairs, shared_data still mapping key to val, and the scripted text
\* as the final answer.
Thm_C30_ScriptedScenario ==
  rpc = "END" =>
    /\ pc = "END"
    /\ nPlan = 1 /\ nExec = 2 /\ nReplan = 2 /\ agent_calls = 2
    /\ past_steps = << <<script.oracle[1].steps[1], script.agent[1].content>>,
                       <<script.oracle[2].steps[1], script.agent[2].content>> >>
    /\ \A k \in DOMAIN script.agent[1].patch :
         /\ k \in DOMAIN shared_data
         /\ shared_data[k] = script.agent[1].patch[k]
         /\ router_shared_data[k] = script.agent[1].patch[k]
    /\ response = script.oracle[3].response
    /\ final_response = script.oracle[3].response

\* the scenario Plan [fetch, summarize], Continue [summarize], Conclude ended
Wit_C30_FetchSummarizeEnded ==
  /\ rpc = "END"
  /\ script.oracle[1].steps = <<"fetch", "summarize">>
  /\ script.oracle[2].steps = <<"summarize">>
  /\ past_steps = << <<"fetch", "r1">>, <<"summarize", "r2">> >>
  /\ shared_data = [k \in {"jira.jql.c1"} |-> "v1"]
  /\ final_response = "answer"

----------------------------------------------------------------------------
(* Properties of single operations *)

\* C31: a completed execute_step ran plan[0]: the sub-agent started from the
\* run's current shared_data, the pair appended to past_steps is (plan[0],
\* content of the sub-agent's last message), and the shared_data returned
\* for merging is the sub-agent's final shared_data.
Thm_C31_ExecutesFirstStep ==
  [][ nExec' = nExec + 1 =>
        /\ plan # <<>>
        /\ past_steps' = past_steps \o << <<plan[1], agent_response'.content>> >>
        /\ \A k \in DOMAIN shared_data : k \in DOMAIN agent_response'.shared_data
        /\ shared_data' = agent_response'.shared_data ]_vars

\* the second execute_step ran the first of two different planned steps
Wit_C31_FirstOfTwoSteps ==
  /\ nExec = 2
  /\ plan = <<"summarize", "fetch">>
  /\ past_steps[2] = <<"summarize", agent_response.content>>
  /\ shared_data # <<>>

StartNotices == EventsOf("MAP-REDUCE SUMMARY") \cup EventsOf("MAP-REDUCE ANALYSIS")
CompleteNotices ==
  EventsOf("MAP-REDUCE COMPLETE") \cup EventsOf("MAP-REDUCE ANALYSIS COMPLETE")

\* the content the last tool call worked on
ResolvedContent ==
  IF tool_call.memory_key \in DOMAIN agent_state
  THEN agent_state[tool_call.memory_key] ELSE tool_call.content

\* C36: on the map-reduce path of both tools the start notice, naming the
\* number of items, is written before chain.invoke; the completion notice is
\* written only after the chain returned, and never when the chain raised.
Thm_C36_NoticesAroundChain ==
  tool_call.tool \in AnalysisTools =>
    /\ \A i \in EventsOf("chain.invoke") :
         \E s \in StartNotices : s < i /\ events[s].n = ResolvedContent.len
    /\ \A c \in CompleteNotices :
         /\ \E r \in EventsOf("reduce") : r < c
         /\ \A i \in EventsOf("chain.invoke") : i < c
         /\ tool_result.kind = "messages"
    /\ (EventsOf("chain.invoke") # {} /\ tool_result.kind = "raise")
         => CompleteNotices = {}
    /\ (EventsOf("chain.invoke") # {} /\ tool_result.kind = "messages")
         => CompleteNotices # {}

\* the chain raised on the second of two items after the start notice
Wit_C36_ChainRaisedAfterStart ==
  /\ tool_call.tool = "summarise_content_tool"
  /\ tool_result.kind = "raise"
  /\ \E s \in StartNotices : events[s].n = 2
  /\ EventsOf("map") # {} /\ EventsOf("reduce") = {}

----------------------------------------------------------------------------
(* GitHubAPIWrapper: the repository cache *)

\* github.get_repo calls one wrapper makes in the model
MaxRepoCalls == 4

\* calls made to github.get_repo so far, over the names in S
RECURSIVE repo_calls(_)
repo_calls(S) ==
  IF S = {} THEN 0
  ELSE LET n == CHOOSE x \in S : TRUE
       IN github_get_repo[n] + repo_calls(S \ {n})

Returned(name, repo) == [name |-> name, repo |-> repo]

get_repo_uncached ==
  /\ repo_calls(RepoNames) < MaxRepoCalls
  /\ \E repo_name \in RepoNames, ok \in BOOLEAN :
       LET fetched == repo_calls(RepoNames) + 1
       IN /\ github_get_repo' = [github_get_repo EXCEPT ![repo_name] = @ + 1]
          /\ repo_cache' = (IF ok
                            THEN [n \in DOMAIN repo_cache \cup {repo_name} |->
                                    IF n = repo_name THEN fetched ELSE repo_cache[n]]
                            ELSE repo_cache)
          /\ repo_returned' = Returned(repo_name, IF ok THEN fetched ELSE 0)
  /\ UNCHANGED <<request_vars, document_vars, graph_vars, prompt_vars, chat_vars>>

\* _get_repo(repo_name): a cached name returns the cached object; any other
\* name calls github.get_repo, which returns a new object, stored in the
\* cache, or raises, which leaves the cache as it was (repo 0: no object)
get_repo ==
  /\ \E repo_name \in RepoNames :
       IF repo_name \in DOMAIN repo_cache
       THEN /\ repo_returned' = Returned(repo_name, repo_cache[repo_name])
            /\ UNCHANGED <<repo_cache, github_get_repo>>
       ELSE /\ repo_calls(RepoNames) < MaxRepoCalls
            /\ github_get_repo' = [github_get_repo EXCEPT ![repo_name] = @ + 1]
            /\ \E ok \in BOOLEAN :
                 LET fetched == repo_calls(RepoNames) + 1
                 IN IF ok
                    THEN /\ repo_cache' = [n \in DOMAIN repo_cache \cup {repo_name} |->
                                             IF n = repo_name THEN fetched
                                             ELSE repo_cache[n]]
                         /\ repo_returned' = Returned(repo_name, fetched)
                    ELSE /\ repo_cache' = repo_cache
                         /\ repo_returned' = Returned(repo_name, 0)
  /\ UNCHANGED <<request_vars, document_vars, graph_vars, prompt_vars, chat_vars>>

RepoNext == get_repo

RepoSpec == SessionInit /\ [][RepoNext]_vars

\* C32 as stated: github.get_repo is called at most once per repository name.
Claim_C32_OncePerName ==
  \A n \in RepoNames : github_get_repo[n] <= 1

\* C32, amended: github.get_repo is never called for a name that is in the
\* cache, so it returns at most once per name; a cached object is never
\* replaced, and every _get_repo that returns, returns the cached object of
\* its name, the one fetched by the first call that succeeded.  A call whose
\* github.get_repo raised caches nothing, and the next call for that name
\* calls github.get_repo again.
Thm_C32_FetchedOncePerCachedName ==
  [][ /\ \A n \in RepoNames :
           /\ (github_get_repo'[n] # github_get_repo[n] =>
                 (n \notin DOMAIN repo_cache
                  /\ github_get_repo'[n] = github_get_repo[n] + 1))
           /\ (n \in DOMAIN repo_cache =>
                 (n \in DOMAIN repo_cache' /\ repo_cache'[n] = repo_cache[n]))
      /\ (repo_returned'.repo # 0 =>
            (repo_returned'.name \in DOMAIN repo_cache'
             /\ repo_returned'.repo = repo_cache'[repo_returned'.name])) ]_vars

\* a repository fetched before another one was returned again from the cache
Wit_C32_ReturnedFromCache ==
  \E n, m \in DOMAIN repo_cache :
    /\ repo_cache[n] < repo_cache[m]
    /\ repo_returned = Returned(n, repo_cache[n])
    /\ github_get_repo[n] = 1

----------------------------------------------------------------------------
(* github_data_to_document: GitHub data to Documents *)

\* longest list converted in the model
MaxDataItems == 3

\* a GitHub item is a dict; the conversion looks at which keys it has
Commit == [keys |-> {"sha", "message"}]
PullRequest == [keys |-> {"number", "title"}]
DataItems == {Commit, PullRequest,
              [keys |-> {"sha", "message", "number", "title"}],
              [keys |-> {"sha", "title"}],
              [keys |-> {"name"}]}

Document(type, item) == [type |-> type, item |-> item]
github_commit_to_document(commit) == Document("github_commit", commit)
github_pr_to_document(pr) == Document("github_pr", pr)

is_commit(item) == "sha" \in item.keys /\ "message" \in item.keys
is_pr(item) == "number" \in item.keys /\ "title" \in item.keys

\* the list branch: a commit, else a pull request, else nothing is appended
RECURSIVE list_to_documents(_)
list_to_documents(items) ==
  IF items = <<>> THEN <<>>
  ELSE LET item == Head(items)
       IN (IF is_commit(item) THEN <<github_commit_to_document(item)>>
           ELSE IF is_pr(item) THEN <<github_pr_to_document(item)>>
           ELSE <<>>)
          \o list_to_documents(Tail(items))

\* the return value as a sequence: the list of a list, the one Document of
\* a dict
github_data_to_document(d) ==
  IF d.type = "list" THEN list_to_documents(d.items)
  ELSE LET item == d.items[1]
       IN IF is_commit(item) THEN <<github_commit_to_document(item)>>
          ELSE IF is_pr(item) THEN <<github_pr_to_document(item)>>
          ELSE <<Document("github_data", item)>>

GitHubData ==
  {[type |-> "list", items |-> l] : l \in SeqsUpTo(DataItems, MaxDataItems)}
  \cup {[type |-> "dict", items |-> <<i>>] : i \in DataItems}

\* one call of github_data_to_document
convert_github_data ==
  /\ \E d \in GitHubData :
       /\ github_data' = d
       /\ converted' = github_data_to_document(d)
  /\ UNCHANGED <<request_vars, repo_vars, graph_vars, prompt_vars, chat_vars>>

DocumentNext == convert_github_data

DocumentSpec == SessionInit /\ [][DocumentNext]_vars

\* C34: applied to a list, github_data_to_document returns one Document per
\* item, in the items' order, typed as commit or pull request.
Claim_C34_OneDocumentPerItem ==
  github_data.type = "list" =>
    /\ Len(converted) = Len(github_data.items)
    /\ \A i \in 1..Len(github_data.items) :
         /\ i <= Len(converted)
         /\ converted[i].item = github_data.items[i]
         /\ converted[i].type \in {"github_commit", "github_pr"}

----------------------------------------------------------------------------
(* Construction of the engines: GitHubGraph.__init__ and JiraGraph.__init__ *)

\* longest tool list a caller supplies in the model
MaxSupplied == 2

\* JiraGraph instances constructed without a tools argument in the model
MaxJiraGraphs == 3

\* tools are identified by their names
PowerGitHubToolkit == <<"get_github_commits", "get_github_pull_requests",
                        "get_github_commit_details", "get_github_pr_details">>
PowerJiraToolkit == <<"jql_query">>
DateTimeToolkit == <<"get_todays_date", "get_todays_datetime", "get_current_time",
                     "is_leap_year", "delta", "add_delta">>
github_tool_names == {PowerGitHubToolkit[i] : i \in 1..Len(PowerGitHubToolkit)}

Count(tools, name) == Cardinality({i \in 1..Len(tools) : tools[i] = name})
Has(tools, name) == \E i \in 1..Len(tools) : tools[i] = name

\* the lists a caller supplies: distinct tools, each name at most once
ToolNames == {"get_github_commits", "jql_query", "analyze_content_tool",
              "summarise_content_tool", "custom_tool"}
SuppliedTools ==
  {l \in SeqsUpTo(ToolNames, MaxSupplied) : \A n \in ToolNames : Count(l, n) <= 1}

\* `if not any(tool.name == name ...): tools.append(tool)`
append_if_absent(tools, name) ==
  IF Has(tools, name) THEN tools ELSE Append(tools, name)

github_graph_tools_always_appends(tools) ==
  LET with_toolkit ==
        IF \E n \in github_tool_names : Has(tools, n) THEN tools
        ELSE tools \o PowerGitHubToolkit
  IN Append(Append(with_toolkit, "analyze_content_tool"), "summarise_content_tool")
     \o DateTimeToolkit

\* the tool list GitHubGraph.__init__ leaves in self.tools
github_graph_tools(tools) ==
  LET with_toolkit ==
        IF \E n \in github_tool_names : Has(tools, n) THEN tools
        ELSE tools \o PowerGitHubToolkit
  IN append_if_absent(append_if_absent(with_toolkit, "analyze_content_tool"),
                      "summarise_content_tool")
     \o DateTimeToolkit

\* the tool list JiraGraph.__init__ leaves in self.tools
jira_graph_tools(tools) ==
  LET with_toolkit ==
        IF Has(tools, "jql_query") THEN tools ELSE tools \o PowerJiraToolkit
  IN append_if_absent(append_if_absent(with_toolkit, "analyze_content_tool"),
                      "summarise_content_tool")
     \o DateTimeToolkit

Graph(class, default, supplied, tools) ==
  [class |-> class, default |-> default, supplied |-> supplied, tools |-> tools]

\* GitHubGraph(llm, tools): tools=None stands for a new empty list
GitHubGraph_init ==
  /\ \E supplied \in SuppliedTools, default \in BOOLEAN :
       /\ default => supplied = <<>>
       /\ graph' = Graph("GitHubGraph", default, supplied, github_graph_tools(supplied))
  /\ UNCHANGED <<default_tools, request_vars, repo_vars, document_vars,
                 prompt_vars, chat_vars>>

\* JiraGraph(llm, tools): without the argument, tools is the one list object
\* created when the def statement ran (tools=[]), which the constructor
\* extends in place
JiraGraph_init ==
  /\ \E supplied \in SuppliedTools, default \in BOOLEAN :
       IF default
       THEN /\ Count(default_tools, "get_todays_date") < MaxJiraGraphs
            /\ default_tools' = jira_graph_tools(default_tools)
            /\ graph' = Graph("JiraGraph", TRUE, <<>>, default_tools')
       ELSE /\ graph' = Graph("JiraGraph", FALSE, supplied, jira_graph_tools(supplied))
            /\ UNCHANGED default_tools
  /\ UNCHANGED <<request_vars, repo_vars, document_vars, prompt_vars, chat_vars>>

GraphNext ==
  \/ GitHubGraph_init
  \/ JiraGraph_init

GraphSpec == SessionInit /\ [][GraphNext]_vars

Claim_C39_DefaultToolsFresh ==
  (graph.class = "JiraGraph" /\ graph.default) =>
    /\ graph.tools = jira_graph_tools(<<>>)
    /\ \A i, j \in 1..Len(graph.tools) : graph.tools[i] = graph.tools[j] => i = j

----------------------------------------------------------------------------
(* Agent.build_graph and the module-level prompts *)

\* build_graph calls made in one process in the model
MaxBuilds == 4

\* the engines of one process and the tool names of each
Engines == {"github", "jira", "agent"}

engine_tools(e) ==
  CASE e = "github" -> github_graph_tools(<<>>)
    [] e = "jira" -> jira_graph_tools(<<>>)
    [] e = "agent" -> <<"get_todays_date">>

\* build_graph of one engine: it sets the tools variable of the two
\* module-level prompts to its own tool names and appends a {tools} message
\* to each; self.planner and self.replanner are built on those prompt objects
build_graph ==
  /\ Len(built) < MaxBuilds
  /\ \E e \in Engines :
       /\ planner_prompt' =
            Prompt(planner_prompt.tools_messages + 1, engine_tools(e))
       /\ replanner_prompt' =
            Prompt(replanner_prompt.tools_messages + 1, engine_tools(e))
       /\ built' = Append(built, e)
  /\ UNCHANGED <<request_vars, repo_vars, document_vars, graph_vars, chat_vars>>

\* the prompts of the i-th built engine: the prompt objects its planner and
\* replanner chains refer to
planner_of(i) == planner_prompt
replanner_of(i) == replanner_prompt

PromptNext == build_graph

PromptSpec == SessionInit /\ [][PromptNext]_vars

\* C38: after build_graph on several engines, each engine's planner and
\* replanner prompts hold exactly one tools message, listing its own tools.
Claim_C38_OwnToolsMessage ==
  \A i \in 1..Len(built) :
    /\ planner_of(i) = Prompt(1, engine_tools(built[i]))
    /\ replanner_of(i) = Prompt(1, engine_tools(built[i]))

----------------------------------------------------------------------------
(* The console session: chats and thread ids *)

\* chats of one console session in the model
MaxChats == 4

\* questions asked in one console session in the model
MaxQuestions == 4

Question(chat, thread_id) == [chat |-> chat, thread_id |-> thread_id]

\* the NEWCHAT command: a chat without a thread_id becomes the active chat
newchat ==
  /\ Len(chats) < MaxChats
  /\ chats' = Append(chats, Chat(ToString(Len(chats) + 1), None))
  /\ active_chat' = Len(chats) + 1
  /\ UNCHANGED <<config_thread_id, questions, request_vars, repo_vars,
                 document_vars, graph_vars, prompt_vars>>

\* stream_llm(human_input): a chat without a thread_id takes the config's
\* current one; the config then follows the chat's; the graph runs under it
stream_llm ==
  /\ Len(questions) < MaxQuestions
  /\ LET chat == chats[active_chat]
         thread_id == IF ~Truthy(chat.thread_id) THEN config_thread_id
                      ELSE chat.thread_id
     IN /\ chats' = [chats EXCEPT ![active_chat] = Chat(chat.id, thread_id)]
        /\ config_thread_id' = thread_id
        /\ questions' = Append(questions, Question(chat.id, thread_id))
  /\ UNCHANGED <<active_chat, request_vars, repo_vars, document_vars,
                 graph_vars, prompt_vars>>

ChatNext ==
  \/ newchat
  \/ stream_llm

ChatSpec == SessionInit /\ [][ChatNext]_vars

\* C37: questions of different chats run under different thread ids.
Claim_C37_ThreadPerChat ==
  \A i, j \in 1..Len(questions) :
    questions[i].chat # questions[j].chat
      => questions[i].thread_id # questions[j].thread_id

====
